---- MODULE Spec2Model ----
(***************************************************************************)
(* Model of the car_picker core: the quiz question generator               *)
(* (src/car_picker/utils/quiz.py) and the filename parser and make lexicon *)
(* (src/car_picker/utils/parsing.py).                                      *)
(*                                                                         *)
(* A Python str is modelled as a sequence of one-character strings, so     *)
(* that formatting, normalisation and humanisation are computed character  *)
(* by character.  A Python list is a sequence; an insertion-ordered dict   *)
(* is a record [keys |-> sequence of keys, val |-> function on the keys].  *)
(***************************************************************************)
EXTENDS Integers, Sequences, FiniteSets, TLC

VARIABLES
    pc,           \* position of the modelled caller: "call" before, "done" after
    records,      \* generate_question: the records argument
    num_choices,  \* generate_question: the num_choices argument
    outcome,      \* generate_question: what the call produced (question or error)
    rng_calls,    \* generate_question: number of calls made on the rng argument
    makes,        \* Lexicon.makes: the canonical -> aliases mapping, in dict order
    alias_lookup, \* Lexicon._alias_lookup: normalized alias -> canonical
    tokens,       \* resolve_make: the tokens argument
    resolved,     \* resolve_make: the returned (make, consumed)
    path,         \* parse_car_filename: the file name, relative to base_dir
    year_idx,     \* find_year_index: the returned index (0-based) or NoIndex
    parsed,       \* parse_car_filename: the returned CarRecord or NoRecord
    fs,           \* the entries below data_dir: [parts, is_file]
    root_exists,  \* whether data_dir exists
    lexicon_file, \* the "makes" mapping stored at lexicon_path, or Absent
    index_file,   \* the text stored at index_path, or Absent
    index_result, \* build_index / load_or_build_index: what the call produced
    last_built,   \* the records returned by the latest build that was saved
    calls,        \* number of load_or_build_index calls made
    session_keys,      \* the keys present in st.session_state
    score,             \* st.session_state["score"]
    rounds_played,     \* st.session_state["rounds_played"]
    history,           \* st.session_state["history"]
    current_question,  \* st.session_state["current_question"]
    answered,          \* st.session_state["answered"]
    selected_choice_id, \* st.session_state["selected_choice_id"]
    answer_calls,      \* number of register_answer calls made
    correct_calls,     \* number of register_answer calls with correct = True
    answers_given,     \* register_answer calls since the latest persist_question
    questions_made,    \* number of questions generated (uuid4 ids are fresh)
    next_enabled,      \* "Next car" was rendered enabled by the last run
    check_enabled,     \* "Check answer" was rendered enabled by the last run
    question_shown     \* the last run rendered the question and its radio

quizVars == <<records, num_choices, outcome, rng_calls>>
lexiconVars == <<makes, alias_lookup, tokens, resolved>>
parserVars == <<path, year_idx, parsed>>
indexVars ==
    <<fs, root_exists, lexicon_file, index_file, index_result, last_built, calls>>
stateVars ==
    <<session_keys, score, rounds_played, history, current_question, answered,
      selected_choice_id>>
uiVars == <<next_enabled, check_enabled, question_shown>>
sessionVars ==
    <<stateVars, answer_calls, correct_calls, answers_given, questions_made, uiVars>>
vars == <<pc, quizVars, lexiconVars, parserVars, indexVars, sessionVars>>

(***************************************************************************)
(* Bounds of the model.                                                    *)
(***************************************************************************)
MaxRecords == 4      \* records in a generate_question call
MaxChoices == 3      \* largest num_choices
MaxMakes == 2        \* entries of a Lexicon mapping
MaxTokens == 4       \* tokens in a resolve_make call
MaxStemTokens == 4   \* "_"-separated tokens in a file stem
MaxCalls == 2        \* load_or_build_index calls in a run
MaxRounds == 3       \* register_answer calls in a session

(***************************************************************************)
(* Generic helpers for Python lists.                                       *)
(***************************************************************************)
Range(s) == {s[i] : i \in 1..Len(s)}

InSeq(x, s) == \E i \in 1..Len(s) : s[i] = x

Min(a, b) == IF a <= b THEN a ELSE b

Abs(n) == IF n < 0 THEN -n ELSE n

\* list[:n] for n >= 0
Take(s, n) == SubSeq(s, 1, Min(n, Len(s)))

\* every order rng.shuffle can leave the list s in
Shuffles(s) ==
    {[i \in 1..Len(s) |-> s[p[i]]] :
        p \in {f \in [1..Len(s) -> 1..Len(s)] :
                  \A i, j \in 1..Len(s) : f[i] = f[j] => i = j}}

\* str(n) for n >= 0, as a sequence of digit characters
Digit(d) == <<"0", "1", "2", "3", "4", "5", "6", "7", "8", "9">>[d + 1]

RECURSIVE IntToStr(_)
IntToStr(n) == IF n < 10 THEN <<Digit(n)>> ELSE IntToStr(n \div 10) \o <<Digit(n % 10)>>

(***************************************************************************)
(* quiz.py                                                                 *)
(***************************************************************************)
CarRecord(rel_path, make, model, year) ==
    [path |-> rel_path, make |-> make, model |-> model, year |-> year]

QuizChoice(id, label, record) == [id |-> id, label |-> label, record |-> record]

QuizQuestion(id, image_record, correct_choice_id, choices) ==
    [id |-> id, image_record |-> image_record,
     correct_choice_id |-> correct_choice_id, choices |-> choices]

\* the key built at quiz.py:92
KeyOf(record) == <<record.make, record.model, record.year>>

_format_label(make, model, year) == make \o <<" ">> \o model \o <<" ">> \o IntToStr(year)

RECURSIVE GroupFrom(_, _, _)
GroupFrom(recs, i, grouped) ==
    IF i > Len(recs) THEN grouped
    ELSE LET key == KeyOf(recs[i])
             next == IF InSeq(key, grouped.keys)
                     THEN [grouped EXCEPT !.val[key] = Append(@, recs[i])]
                     ELSE [keys |-> Append(grouped.keys, key),
                           val  |-> [k \in Range(grouped.keys) \cup {key} |->
                                        IF k = key THEN <<recs[i]>> ELSE grouped.val[k]]]
         IN  GroupFrom(recs, i + 1, next)

_group_by_meta(recs) == GroupFrom(recs, 1, [keys |-> <<>>, val |-> <<>>])

\* a faulty variant: the candidates stay in shuffle order
UnsortedCandidates(s, year) == s

\* sorted(s, key = |candidate year - year|): ascending and stable
RECURSIVE SortedByYearDistance(_, _)
SortedByYearDistance(s, year) ==
    IF s = <<>> THEN <<>>
    ELSE LET dist(k) == Abs(k[3] - year)
             m == CHOOSE d \in {dist(s[i]) : i \in 1..Len(s)} :
                      \A j \in 1..Len(s) : d <= dist(s[j])
         IN  SelectSeq(s, LAMBDA k : dist(k) = m)
                 \o SortedByYearDistance(SelectSeq(s, LAMBDA k : dist(k) # m), year)

\* the three selection loops of _pick_distractor_keys: append the candidates
\* in order (skipping duplicates when checkDup) and break once the quota is met
RECURSIVE SelectLoop(_, _, _, _)
SelectLoop(selected, candidates, num_needed, checkDup) ==
    IF candidates = <<>> THEN selected
    ELSE LET key == Head(candidates)
             sel == IF checkDup /\ InSeq(key, selected) THEN selected
                    ELSE Append(selected, key)
         IN  IF Len(sel) >= num_needed THEN sel
             ELSE SelectLoop(sel, Tail(candidates), num_needed, checkDup)

\* a faulty variant: only the same-make candidates are ever used
PickSameMakeOnly(catalog, target_key, num_needed, same_make, other) ==
    LET tierA == SelectLoop(<<>>, same_make, num_needed, FALSE)
    IN  {[keys |-> Take(tierA, num_needed), rng |-> 2,
          filled |-> Len(tierA), pool |-> <<>>]}

\* the part of _pick_distractor_keys after the two shuffles: the set of lists it
\* can return (one per outcome of the fallback shuffle), with the rng calls made,
\* the length of selected after the first two loops and the fallback pool
PickAfterShuffle(catalog, target_key, num_needed, same_make, other) ==
    LET year == target_key[3]
        tierA == SelectLoop(<<>>, same_make, num_needed, FALSE)
        tierB == IF Len(tierA) < num_needed
                 THEN SelectLoop(tierA, SortedByYearDistance(other, year), num_needed, TRUE)
                 ELSE tierA
    IN  IF Len(tierB) < num_needed
        THEN LET pool == SelectSeq(catalog.keys,
                             LAMBDA key : key # target_key /\ ~InSeq(key, tierB))
             IN  {[keys |-> Take(SelectLoop(tierB, p, num_needed, FALSE), num_needed),
                   rng |-> 3, filled |-> Len(tierB), pool |-> pool] :
                      p \in Shuffles(pool)}
        ELSE {[keys |-> Take(tierB, num_needed), rng |-> 2,
               filled |-> Len(tierB), pool |-> <<>>]}

\* a faulty variant: the make comparison of the two candidate lists is inverted
PickPreferringOtherMakes(catalog, target_key, num_needed) ==
    LET make == target_key[1]
        same_make == SelectSeq(catalog.keys, LAMBDA key : key[1] # make)
        other == SelectSeq(catalog.keys,
                     LAMBDA key : key[1] = make /\ key # target_key)
    IN  UNION {PickAfterShuffle(catalog, target_key, num_needed, sm, ot) :
                  <<sm, ot>> \in Shuffles(same_make) \X Shuffles(other)}

\* a faulty variant: the target's own group is among the same-make candidates
PickAmongAllGroups(catalog, target_key, num_needed) ==
    LET make == target_key[1]
        same_make == SelectSeq(catalog.keys, LAMBDA key : key[1] = make)
        other == SelectSeq(catalog.keys, LAMBDA key : key[1] # make)
    IN  UNION {PickAfterShuffle(catalog, target_key, num_needed, sm, ot) :
                  <<sm, ot>> \in Shuffles(same_make) \X Shuffles(other)}

\* a faulty variant: only the other makes' groups of the target's year are
\* candidates of the second loop
PickAmongSameYear(catalog, target_key, num_needed) ==
    LET make == target_key[1]
        same_make == SelectSeq(catalog.keys,
                         LAMBDA key : key[1] = make /\ key # target_key)
        other == SelectSeq(catalog.keys,
                     LAMBDA key : key[1] # make /\ key[3] = target_key[3])
    IN  UNION {PickAfterShuffle(catalog, target_key, num_needed, sm, ot) :
                  <<sm, ot>> \in Shuffles(same_make) \X Shuffles(other)}

\* every list _pick_distractor_keys can return, over the outcomes of rng
_pick_distractor_keys(catalog, target_key, num_needed) ==
    LET make == target_key[1]
        same_make == SelectSeq(catalog.keys,
                         LAMBDA key : key[1] = make /\ key # target_key)
        other == SelectSeq(catalog.keys, LAMBDA key : key[1] # make)
    IN  UNION {PickAfterShuffle(catalog, target_key, num_needed, sm, ot) :
                  <<sm, ot>> \in Shuffles(same_make) \X Shuffles(other)}

\* a faulty variant: a distractor carries the last record of its group
BuildChoicesLastRecord(catalog, target_key, image_record, distractor_keys) ==
    <<QuizChoice(1, _format_label(target_key[1], target_key[2], target_key[3]),
                 image_record)>>
    \o [i \in 1..Len(distractor_keys) |->
           LET key == distractor_keys[i]
           IN  QuizChoice(i + 1, _format_label(key[1], key[2], key[3]),
                          catalog.val[key][Len(catalog.val[key])])]

\* the choices list built at quiz.py:56-74; uuid4 values are modelled as fresh
\* ids: 1 for the correct choice, 2.. for the distractors in order
BuildChoices(catalog, target_key, image_record, distractor_keys) ==
    <<QuizChoice(1, _format_label(target_key[1], target_key[2], target_key[3]),
                 image_record)>>
    \o [i \in 1..Len(distractor_keys) |->
           LET key == distractor_keys[i]
           IN  QuizChoice(i + 1, _format_label(key[1], key[2], key[3]),
                          catalog.val[key][1])]

\* a faulty variant: choice counts below 1, not below 2, are rejected
ChoiceCountBelowOne(k) == k < 1

\* the guard at quiz.py:34
InvalidChoiceCount(k) == k < 2

\* a faulty variant: the records, not the groups, are counted
FewerRecordsThan(recs, unique_keys, k) == Len(recs) < k

\* the guard at quiz.py:39
InsufficientCatalog(recs, unique_keys, k) == Len(unique_keys) < k

\* every result of generate_question(recs, num_choices = k, rng), over the
\* outcomes of rng and uuid4: a question, or one of the two ValueErrors.
\* rng counts the calls made on rng, grouped tells whether the catalog was built
generate_question(recs, k) ==
    IF InvalidChoiceCount(k)
    THEN {[status |-> "InvalidChoiceCount", rng |-> 0, grouped |-> FALSE]}
    ELSE LET catalog == _group_by_meta(recs)
             unique_keys == catalog.keys
         IN  IF InsufficientCatalog(recs, unique_keys, k)
             THEN {[status |-> "InsufficientCatalog", rng |-> 0, grouped |-> TRUE]}
             ELSE UNION {
                    UNION {
                      {[status |-> "ok", rng |-> 2 + d.rng + 1, grouped |-> TRUE,
                        question |-> QuizQuestion(Len(d.keys) + 2, image_record, 1, ch)] :
                          ch \in Shuffles(BuildChoices(catalog, target_key,
                                                       image_record, d.keys))} :
                        d \in _pick_distractor_keys(catalog, target_key, k - 1)} :
                    <<target_key, image_record>> \in
                        {<<tk, ir>> \in Range(unique_keys) \X Range(recs) :
                            InSeq(ir, catalog.val[tk])}}

is_correct(question, choice_id) == question.correct_choice_id = choice_id

(***************************************************************************)
(* Python str operations used by parsing.py, on ASCII characters.          *)
(***************************************************************************)
LowerLetters == <<"a", "b", "c", "d", "e", "f", "g", "h", "i", "j", "k", "l", "m",
                  "n", "o", "p", "q", "r", "s", "t", "u", "v", "w", "x", "y", "z">>
UpperLetters == <<"A", "B", "C", "D", "E", "F", "G", "H", "I", "J", "K", "L", "M",
                  "N", "O", "P", "Q", "R", "S", "T", "U", "V", "W", "X", "Y", "Z">>
DigitChars == {"0", "1", "2", "3", "4", "5", "6", "7", "8", "9"}

IsLowerChar(c) == c \in Range(LowerLetters)
IsUpperChar(c) == c \in Range(UpperLetters)
IsDigitChar(c) == c \in DigitChars

LowerChar(c) ==
    IF IsUpperChar(c) THEN LowerLetters[CHOOSE i \in 1..26 : UpperLetters[i] = c] ELSE c
UpperChar(c) ==
    IF IsLowerChar(c) THEN UpperLetters[CHOOSE i \in 1..26 : LowerLetters[i] = c] ELSE c

\* str.lower(), str.upper()
StrLower(s) == [i \in 1..Len(s) |-> LowerChar(s[i])]
StrUpper(s) == [i \in 1..Len(s) |-> UpperChar(s[i])]

\* str.isupper(): at least one cased character and no lowercase one
StrIsUpper(s) ==
    /\ \E i \in 1..Len(s) : IsUpperChar(s[i])
    /\ \A i \in 1..Len(s) : ~IsLowerChar(s[i])

\* str.isdigit(): non-empty and digits only
StrIsDigit(s) == s # <<>> /\ \A i \in 1..Len(s) : IsDigitChar(s[i])

\* str.capitalize(): first character upper-cased, the rest lower-cased
StrCapitalize(s) == [i \in 1..Len(s) |-> IF i = 1 THEN UpperChar(s[i]) ELSE LowerChar(s[i])]

\* str.strip(): the space is the only whitespace character of the model
RECURSIVE StripLeft(_)
StripLeft(s) == IF s # <<>> /\ Head(s) = " " THEN StripLeft(Tail(s)) ELSE s

RECURSIVE StripRight(_)
StripRight(s) ==
    IF s # <<>> /\ s[Len(s)] = " " THEN StripRight(SubSeq(s, 1, Len(s) - 1)) ELSE s

StrStrip(s) == StripRight(StripLeft(s))

\* str.replace(old, new) for single characters
StrReplace(s, old, new) == [i \in 1..Len(s) |-> IF s[i] = old THEN new ELSE s[i]]

\* str.split(sep) for a single-character separator: never an empty list
RECURSIVE SplitFrom(_, _, _)
SplitFrom(s, sep, current) ==
    IF s = <<>> THEN <<current>>
    ELSE IF Head(s) = sep THEN <<current>> \o SplitFrom(Tail(s), sep, <<>>)
    ELSE SplitFrom(Tail(s), sep, Append(current, Head(s)))

StrSplit(s, sep) == SplitFrom(s, sep, <<>>)

\* sep.join(parts)
RECURSIVE StrJoin(_, _)
StrJoin(parts, sep) ==
    IF parts = <<>> THEN <<>>
    ELSE IF Len(parts) = 1 THEN parts[1]
    ELSE parts[1] \o sep \o StrJoin(Tail(parts), sep)

\* int(s) for a string of digits
RECURSIVE StrToInt(_)
StrToInt(s) ==
    IF s = <<>> THEN 0
    ELSE 10 * StrToInt(SubSeq(s, 1, Len(s) - 1))
            + (CHOOSE d \in 0..9 : Digit(d) = s[Len(s)])

\* pathlib's Path.stem of a file name: the name without its last suffix
PathStem(name) ==
    LET dots == {i \in 1..Len(name) : name[i] = "."}
    IN  IF dots = {} THEN name
        ELSE LET last == CHOOSE i \in dots : \A j \in dots : j <= i
             IN  IF last = 1 \/ last = Len(name) THEN name
                 ELSE SubSeq(name, 1, last - 1)

(***************************************************************************)
(* parsing.py                                                              *)
(***************************************************************************)
\* Python's None where a str is expected; no str equals it
None == <<"None">>

\* find_year_index returning None
NoIndex == -1

\* parse_car_filename returning None
NoRecord == [none |-> TRUE]

\* a path at which no file exists
Absent == [exists |-> FALSE]

\* no build has been saved yet
NotBuilt == [built |-> FALSE]

\* st.session_state["current_question"] is None
NoQuestion == [none |-> TRUE, id |-> 0]

\* st.session_state["selected_choice_id"] is None
NoChoice == 0

MinYear == 1950
MaxYear == 2035
MaxWindow == 3
ShortTokenLen == 3

\* re.sub(r"[^a-z0-9]+", " ", s): every run of other characters becomes one space
RECURSIVE SubNonAlnum(_, _)
SubNonAlnum(s, inRun) ==
    IF s = <<>> THEN <<>>
    ELSE IF IsLowerChar(Head(s)) \/ IsDigitChar(Head(s))
         THEN <<Head(s)>> \o SubNonAlnum(Tail(s), FALSE)
         ELSE (IF inRun THEN <<>> ELSE <<" ">>) \o SubNonAlnum(Tail(s), TRUE)

normalize_name(value) == StrStrip(SubNonAlnum(StrLower(value), FALSE))

\* dict[key] = value
DictSet(d, key, value) ==
    [k \in DOMAIN d \cup {key} |-> IF k = key THEN value ELSE d[k]]

\* the inner loop of __post_init__ over aliases + [canonical]
RECURSIVE RegisterAliases(_, _, _)
RegisterAliases(lookup, aliases, canonical) ==
    IF aliases = <<>> THEN lookup
    ELSE RegisterAliases(DictSet(lookup, normalize_name(Head(aliases)), canonical),
                         Tail(aliases), canonical)

\* the outer loop of __post_init__ over makes.items()
RECURSIVE RegisterMakes(_, _)
RegisterMakes(lookup, entries) ==
    IF entries = <<>> THEN lookup
    ELSE LET e == Head(entries)
         IN  RegisterMakes(
                 RegisterAliases(lookup, Append(e.aliases, e.canonical), e.canonical),
                 Tail(entries))

\* Lexicon.__post_init__: the alias table of a mapping
Lexicon__post_init__(mapping) == RegisterMakes(<<>>, mapping)

\* the truth value Python gives an Optional[str]
Truthy(s) == s # None /\ s # <<>>

\* self._alias_lookup.get(candidate)
LookupGet(lookup, candidate) ==
    IF candidate \in DOMAIN lookup THEN lookup[candidate] ELSE None

\* the loop of resolve_make, from window size `size` down to 1
RECURSIVE ResolveFrom(_, _, _)
ResolveFrom(lookup, token_list, size) ==
    IF size < 1 THEN [make |-> None, consumed |-> 0]
    ELSE LET candidate == normalize_name(StrJoin(Take(token_list, size), <<" ">>))
             match == LookupGet(lookup, candidate)
         IN  IF Truthy(match) THEN [make |-> match, consumed |-> size]
             ELSE ResolveFrom(lookup, token_list, size - 1)

\* Lexicon.resolve_make
resolve_make(lookup, token_list) ==
    ResolveFrom(lookup, token_list, Min(Len(token_list), MaxWindow))

\* YEAR_PATTERN.match(token): ^(19|20)\d{2}$
YEAR_PATTERN(token) ==
    /\ Len(token) = 4
    /\ SubSeq(token, 1, 2) \in {<<"1", "9">>, <<"2", "0">>}
    /\ IsDigitChar(token[3]) /\ IsDigitChar(token[4])

\* a faulty variant: no range check
AnyYear(year) == TRUE

\* the range test at parsing.py:196
YearInRange(year) == MinYear <= year /\ year <= MaxYear

\* a faulty variant: a year token in first position is skipped and the scan
\* goes on to the later tokens
FindYearAfterFirst(token_list) ==
    LET hits == {i \in 2..Len(token_list) :
                    YEAR_PATTERN(token_list[i]) /\ YearInRange(StrToInt(token_list[i]))}
    IN  IF hits = {} THEN NoIndex
        ELSE (CHOOSE i \in hits : \A j \in hits : i <= j) - 1

\* find_year_index: the 0-based index of the first accepted token, or NoIndex
find_year_index(token_list) ==
    LET hits == {i \in 1..Len(token_list) :
                    YEAR_PATTERN(token_list[i]) /\ YearInRange(StrToInt(token_list[i]))}
    IN  IF hits = {} THEN NoIndex
        ELSE (CHOOSE i \in hits : \A j \in hits : i <= j) - 1

humanize_token(token) ==
    IF StrIsUpper(token) THEN token
    ELSE IF StrIsDigit(token) THEN token
    ELSE IF Len(token) <= ShortTokenLen /\ StrUpper(token) = token THEN token
    ELSE LET cleaned == StrReplace(token, "-", " ")
             split == StrSplit(cleaned, " ")
             parts == [i \in 1..Len(split) |->
                          IF split[i] # <<>> THEN StrCapitalize(split[i]) ELSE <<>>]
         IN  StrStrip(StrJoin(parts, <<" ">>))

humanize_tokens(token_list) ==
    StrJoin([i \in 1..Len(token_list) |-> humanize_token(token_list[i])], <<" ">>)

\* a faulty variant: the model starts right after the first token
ModelTokensAfterFirst(pre_year_tokens, consumed) == Tail(pre_year_tokens)

\* pre_year_tokens[consumed:]
ModelTokens(pre_year_tokens, consumed) ==
    SubSeq(pre_year_tokens, consumed + 1, Len(pre_year_tokens))

\* a faulty variant: the make is the text of the matched tokens, humanized
MakeFromTokenText(found, pre_year_tokens) ==
    IF Truthy(found.make)
    THEN [make |-> humanize_tokens(Take(pre_year_tokens, found.consumed)),
          consumed |-> found.consumed]
    ELSE [make |-> humanize_token(pre_year_tokens[1]), consumed |-> 1]

\* the make and the tokens it consumes (parsing.py:175-179): what the lexicon
\* resolved, or else the humanized first token
MakeAndConsumed(found, pre_year_tokens) ==
    IF Truthy(found.make) THEN found
    ELSE [make |-> humanize_token(pre_year_tokens[1]), consumed |-> 1]

\* path.name: the last component of a relative path
RECURSIVE PathName(_)
PathName(rel) ==
    IF \E i \in 1..Len(rel) : rel[i] = "/"
    THEN PathName(Tail(rel))
    ELSE rel

\* parse_car_filename(path, base_dir, lexicon) for a path under base_dir;
\* rel is path.relative_to(base_dir)
parse_car_filename(rel, lookup) ==
    LET stem == PathStem(PathName(rel))
        token_list == StrSplit(stem, "_")
        idx == find_year_index(token_list)
    IN  IF idx = NoIndex \/ idx = 0 THEN NoRecord
        ELSE LET pre_year_tokens == Take(token_list, idx)
                 chosen == MakeAndConsumed(resolve_make(lookup, pre_year_tokens),
                                           pre_year_tokens)
                 model_tokens == ModelTokens(pre_year_tokens, chosen.consumed)
             IN  IF pre_year_tokens = <<>> \/ model_tokens = <<>> THEN NoRecord
                 ELSE CarRecord(rel, chosen.make, humanize_tokens(model_tokens),
                                StrToInt(token_list[idx + 1]))

(***************************************************************************)
(* build_index: the scan of data_dir.  A path below data_dir is the         *)
(* sequence of its components (pathlib's parts).                            *)
(***************************************************************************)
\* the ASCII characters from " " (32) to "_" (95), in code order
Ascii ==
    <<" ", "!", "\"", "#", "$", "%", "&", "'", "(", ")", "*", "+", ",", "-", ".", "/",
      "0", "1", "2", "3", "4", "5", "6", "7", "8", "9", ":", ";", "<", "=", ">", "?",
      "@", "A", "B", "C", "D", "E", "F", "G", "H", "I", "J", "K", "L", "M", "N", "O",
      "P", "Q", "R", "S", "T", "U", "V", "W", "X", "Y", "Z", "[", "\\", "]", "^", "_">>

\* ord(c), for the characters above and the lower-case letters (97 to 122)
Ord(c) ==
    IF IsLowerChar(c)
    THEN 96 + CHOOSE i \in 1..Len(LowerLetters) : LowerLetters[i] = c
    ELSE 31 + CHOOSE i \in 1..Len(Ascii) : Ascii[i] = c

\* a < b on str: by code points, a proper prefix being smaller
RECURSIVE StrLess(_, _)
StrLess(a, b) ==
    IF a = <<>> THEN b # <<>>
    ELSE IF b = <<>> THEN FALSE
    ELSE IF a[1] = b[1] THEN StrLess(Tail(a), Tail(b))
    ELSE Ord(a[1]) < Ord(b[1])

\* p < q on Path: the lists of components are compared, component by component
RECURSIVE PartsLess(_, _)
PartsLess(p, q) ==
    IF p = <<>> THEN q # <<>>
    ELSE IF q = <<>> THEN FALSE
    ELSE IF p[1] = q[1] THEN PartsLess(Tail(p), Tail(q))
    ELSE StrLess(p[1], q[1])

\* sorted(paths)
RECURSIVE SortedPaths(_)
SortedPaths(paths) ==
    IF paths = {} THEN <<>>
    ELSE LET first == CHOOSE p \in paths : \A q \in paths \ {p} : PartsLess(p, q)
         IN  <<first>> \o SortedPaths(paths \ {first})

\* data_dir.rglob("*"): every file and directory below data_dir; the
\* directories are the listed ones and the ancestors of the listed entries
rglob(files) ==
    UNION {{SubSeq(e.parts, 1, n) : n \in 1..Len(e.parts)} : e \in files}

is_file(files, p) == \E e \in files : e.parts = p /\ e.is_file

\* Path.suffix of a path whose last component is name
PathSuffix(name) ==
    LET dots == {i \in 1..Len(name) : name[i] = "."}
    IN  IF dots = {} THEN <<>>
        ELSE LET last == CHOOSE i \in dots : \A j \in dots : j <= i
             IN  IF last = 1 \/ last = Len(name) THEN <<>>
                 ELSE SubSeq(name, last, Len(name))

supported_exts ==
    {<<".", "j", "p", "g">>, <<".", "j", "p", "e", "g">>, <<".", "p", "n", "g">>}

\* a faulty variant: the scan ends at the first file that fails to parse
RECURSIVE IndexLoopUntilFailure(_, _, _, _)
IndexLoopUntilFailure(paths, files, lookup, recs) ==
    IF paths = <<>> THEN recs
    ELSE LET p == Head(paths)
         IN  IF ~is_file(files, p)
                  \/ StrLower(PathSuffix(p[Len(p)])) \notin supported_exts
             THEN IndexLoopUntilFailure(Tail(paths), files, lookup, recs)
             ELSE LET record == parse_car_filename(StrJoin(p, <<"/">>), lookup)
                  IN  IF record # NoRecord
                      THEN IndexLoopUntilFailure(Tail(paths), files, lookup,
                                                 Append(recs, record))
                      ELSE recs

\* the loop of build_index over the sorted paths
RECURSIVE IndexLoop(_, _, _, _)
IndexLoop(paths, files, lookup, recs) ==
    IF paths = <<>> THEN recs
    ELSE LET p == Head(paths)
         IN  IF ~is_file(files, p)
                  \/ StrLower(PathSuffix(p[Len(p)])) \notin supported_exts
             THEN IndexLoop(Tail(paths), files, lookup, recs)
             ELSE LET record == parse_car_filename(StrJoin(p, <<"/">>), lookup)
                  IN  IF record # NoRecord
                      THEN IndexLoop(Tail(paths), files, lookup, Append(recs, record))
                      ELSE IndexLoop(Tail(paths), files, lookup, recs)

\* build_index(data_dir, lexicon): the records, or FileNotFoundError
build_index(files, exists, lookup) ==
    IF ~exists THEN [status |-> "FileNotFoundError"]
    ELSE [status |-> "ok",
          records |-> IndexLoop(SortedPaths(rglob(files)), files, lookup, <<>>)]

(***************************************************************************)
(* load_or_build_index: the saved index is JSON text, written by json.dump   *)
(* (indent = 2, ensure_ascii = False) and read back by json.load.            *)
(***************************************************************************)
KeyPath == <<"p", "a", "t", "h">>
KeyMake == <<"m", "a", "k", "e">>
KeyModel == <<"m", "o", "d", "e", "l">>
KeyYear == <<"y", "e", "a", "r">>

\* the body of a JSON string: a quote and a backslash are escaped
RECURSIVE JsonEscape(_)
JsonEscape(s) ==
    IF s = <<>> THEN <<>>
    ELSE (IF Head(s) \in {"\"", "\\"} THEN <<"\\", Head(s)>> ELSE <<Head(s)>>)
             \o JsonEscape(Tail(s))

JsonString(s) == <<"\"">> \o JsonEscape(s) \o <<"\"">>

Spaces(n) == [i \in 1..n |-> " "]

\* one member line of an object, at indent level 2
JsonMember(key, text) == Spaces(4) \o JsonString(key) \o <<":", " ">> \o text

\* asdict(record) as a JSON object, at indent level 1
JsonObject(record) ==
    <<"{", "\n">>
    \o JsonMember(KeyPath, JsonString(record.path)) \o <<",", "\n">>
    \o JsonMember(KeyMake, JsonString(record.make)) \o <<",", "\n">>
    \o JsonMember(KeyModel, JsonString(record.model)) \o <<",", "\n">>
    \o JsonMember(KeyYear, IntToStr(record.year)) \o <<"\n">>
    \o Spaces(2) \o <<"}">>

\* json.dump([asdict(record) for record in recs], indent=2, ensure_ascii=False)
json_dump(recs) ==
    IF recs = <<>> THEN <<"[", "]">>
    ELSE <<"[", "\n">> \o Spaces(2)
         \o StrJoin([i \in 1..Len(recs) |-> JsonObject(recs[i])],
                    <<",", "\n">> \o Spaces(2))
         \o <<"\n", "]">>

IsWhitespace(c) == c \in {" ", "\n", "\t", "\r"}

\* the first position from i on that holds no whitespace
RECURSIVE SkipWhitespace(_, _)
SkipWhitespace(text, i) ==
    IF i <= Len(text) /\ IsWhitespace(text[i]) THEN SkipWhitespace(text, i + 1)
    ELSE i

\* the string whose body starts at position i: its value and the position
\* after its closing quote
RECURSIVE ScanString(_, _, _)
ScanString(text, i, acc) ==
    IF text[i] = "\"" THEN [val |-> acc, next |-> i + 1]
    ELSE IF text[i] = "\\" THEN ScanString(text, i + 2, Append(acc, text[i + 1]))
    ELSE ScanString(text, i + 1, Append(acc, text[i]))

RECURSIVE ScanInt(_, _, _)
ScanInt(text, i, acc) ==
    IF i <= Len(text) /\ IsDigitChar(text[i])
    THEN ScanInt(text, i + 1, Append(acc, text[i]))
    ELSE [val |-> StrToInt(acc), next |-> i]

\* a member value: a string or a non-negative integer
ScanValue(text, i) ==
    IF text[i] = "\"" THEN ScanString(text, i + 1, <<>>) ELSE ScanInt(text, i, <<>>)

\* the members of an object from the key at position i on, as <<key, value>>
RECURSIVE ScanMembers(_, _, _)
ScanMembers(text, i, acc) ==
    LET key == ScanString(text, i + 1, <<>>)
        colon == SkipWhitespace(text, key.next)
        value == ScanValue(text, SkipWhitespace(text, colon + 1))
        after == SkipWhitespace(text, value.next)
        members == Append(acc, <<key.val, value.val>>)
    IN  IF text[after] = ","
        THEN ScanMembers(text, SkipWhitespace(text, after + 1), members)
        ELSE [val |-> members, next |-> after + 1]

\* the objects of an array from the "{" at position i on
RECURSIVE ScanObjects(_, _, _)
ScanObjects(text, i, acc) ==
    LET object == ScanMembers(text, SkipWhitespace(text, i + 1), <<>>)
        after == SkipWhitespace(text, object.next)
        items == Append(acc, object.val)
    IN  IF text[after] = ","
        THEN ScanObjects(text, SkipWhitespace(text, after + 1), items)
        ELSE items

\* json.load of an array of objects
json_load(text) ==
    LET first == SkipWhitespace(text, SkipWhitespace(text, 1) + 1)
    IN  IF text[first] = "]" THEN <<>> ELSE ScanObjects(text, first, <<>>)

\* item[key] of a loaded object
Member(item, key) == item[CHOOSE i \in 1..Len(item) : item[i][1] = key][2]

\* [CarRecord(**record) for record in raw_records]
LoadRecords(raw_records) ==
    [i \in 1..Len(raw_records) |->
        CarRecord(Member(raw_records[i], KeyPath), Member(raw_records[i], KeyMake),
                  Member(raw_records[i], KeyModel), Member(raw_records[i], KeyYear))]

\* DEFAULT_MAKE_ALIASES, reduced to one entry that stands for
\* "Land Rover": ["land rover", "landrover"]
DEFAULT_MAKE_ALIASES ==
    <<[canonical |-> <<"L", " ", "R">>,
       aliases |-> <<<<"l", " ", "r">>, <<"l", "r">>>>]>>

\* ensure_lexicon: the mapping the Lexicon is made of and the file afterwards
ensure_lexicon(lexfile) ==
    IF lexfile.exists
    THEN [makes |-> IF lexfile.makes # <<>> THEN lexfile.makes
                    ELSE DEFAULT_MAKE_ALIASES,
          file |-> lexfile]
    ELSE [makes |-> DEFAULT_MAKE_ALIASES,
          file |-> [exists |-> TRUE, makes |-> DEFAULT_MAKE_ALIASES]]

\* a faulty variant: the saved index is never used
NeverUseSavedIndex(idxfile, force_rebuild) == FALSE

\* the test at parsing.py:133
UseSavedIndex(idxfile, force_rebuild) == idxfile.exists /\ ~force_rebuild

\* load_or_build_index: what it returns or raises, and the two files afterwards
load_or_build_index(files, exists, lexfile, idxfile, force_rebuild) ==
    LET lexicon == ensure_lexicon(lexfile)
        lookup == Lexicon__post_init__(lexicon.makes)
    IN  IF UseSavedIndex(idxfile, force_rebuild)
        THEN [status |-> "ok", source |-> "index", force_rebuild |-> force_rebuild,
              records |-> LoadRecords(json_load(idxfile.text)),
              makes |-> lexicon.makes, lexicon_file |-> lexicon.file,
              index_file |-> idxfile]
        ELSE LET built == build_index(files, exists, lookup)
             IN  IF built.status # "ok"
                 THEN [status |-> built.status, source |-> "build",
                       force_rebuild |-> force_rebuild,
                       makes |-> lexicon.makes, lexicon_file |-> lexicon.file,
                       index_file |-> idxfile]
                 ELSE [status |-> "ok", source |-> "build",
                       force_rebuild |-> force_rebuild,
                       records |-> built.records,
                       makes |-> lexicon.makes, lexicon_file |-> lexicon.file,
                       index_file |-> [exists |-> TRUE,
                                       text |-> json_dump(built.records)]]

(***************************************************************************)
(* state.py: the game state kept in st.session_state, as a record of the    *)
(* keys present and the value of each key.                                  *)
(***************************************************************************)
SessionKeys ==
    {"score", "rounds_played", "history", "current_question", "answered",
     "selected_choice_id"}

HistoryLimit == 25

\* session.setdefault(key, default): the value of key afterwards
setdefault(s, key, value, default) == IF key \in s.keys THEN value ELSE default

\* a faulty variant: every call sets the defaults again
init_game_state_afresh(s) ==
    [keys |-> s.keys \cup SessionKeys, score |-> 0, rounds_played |-> 0,
     history |-> <<>>, current_question |-> NoQuestion, answered |-> FALSE,
     selected_choice_id |-> NoChoice]

init_game_state(s) ==
    [keys |-> s.keys \cup SessionKeys,
     score |-> setdefault(s, "score", s.score, 0),
     rounds_played |-> setdefault(s, "rounds_played", s.rounds_played, 0),
     history |-> setdefault(s, "history", s.history, <<>>),
     current_question |->
         setdefault(s, "current_question", s.current_question, NoQuestion),
     answered |-> setdefault(s, "answered", s.answered, FALSE),
     selected_choice_id |->
         setdefault(s, "selected_choice_id", s.selected_choice_id, NoChoice)]

persist_question(s, question) ==
    [s EXCEPT !.current_question = question,
              !.answered = FALSE,
              !.selected_choice_id = NoChoice]

set_selected_choice(s, choice_id) == [s EXCEPT !.selected_choice_id = choice_id]

has_answered(s) == s.answered

\* the first choice whose id is correct_choice_id; every question made by
\* generate_question has one, so the ValueError of state.py:88 is not raised
_get_correct_choice(question) ==
    question.choices[CHOOSE i \in 1..Len(question.choices) :
                        /\ question.choices[i].id = question.correct_choice_id
                        /\ \A j \in 1..(i - 1) :
                              question.choices[j].id # question.correct_choice_id]

HistoryEntry(question_id, selected_label, correct_label, correct) ==
    [question_id |-> question_id, selected_label |-> selected_label,
     correct_label |-> correct_label, correct |-> correct]

\* history[-HistoryLimit:]
LastEntries(entries) ==
    IF Len(entries) <= HistoryLimit THEN entries
    ELSE SubSeq(entries, Len(entries) - HistoryLimit + 1, Len(entries))

register_answer(s, choice_id, correct, question, choice) ==
    [s EXCEPT !.answered = TRUE,
              !.rounds_played = @ + 1,
              !.score = IF correct THEN @ + 1 ELSE @,
              !.history = LastEntries(Append(@,
                              HistoryEntry(question.id, choice.label,
                                           _get_correct_choice(question).label,
                                           correct)))]

(***************************************************************************)
(* app.py: one run of main() over the session state s, for the records      *)
(* load_or_build_index returned, the configured num_choices k, the button    *)
(* whose click started the run and the value of the question's radio.       *)
(* A run yields the session state and the buttons as it leaves them.        *)
(***************************************************************************)
\* labels[label] at app.py:114: a later choice replaces an earlier one that
\* has the same label
ChoiceByLabel(question, label) ==
    question.choices[CHOOSE i \in 1..Len(question.choices) :
                        /\ question.choices[i].label = label
                        /\ \A j \in (i + 1)..Len(question.choices) :
                              question.choices[j].label # label]

\* what the radio can select: "Choose an option" (no choice) or a label
RadioSelections(question) ==
    {NoChoice} \cup {ChoiceByLabel(question, c.label).id : c \in Range(question.choices)}

ChoiceById(question, id) == CHOOSE c \in Range(question.choices) : c.id = id

\* generate_new_question: the question (with a fresh id) is persisted, or the
\* ValueError is reported and there is no question
generate_new_question(s, recs, k, made) ==
    {IF o.status = "ok"
     THEN LET question == [o.question EXCEPT !.id = made + 1]
          IN  [s |-> persist_question(s, question), question |-> question,
               persisted |-> TRUE]
     ELSE [s |-> s, question |-> NoQuestion, persisted |-> FALSE] :
        o \in generate_question(recs, k)}

\* a faulty variant: the button is disabled only while nothing is selected
CheckDisabledWithoutSelection(s, selected) == selected = NoChoice

\* disabled at app.py:135
CheckDisabled(s, selected) == has_answered(s) \/ selected = NoChoice

\* the test at app.py:71
MayGenerate(s) == s.current_question = NoQuestion \/ has_answered(s)

Rendered(s, next, check, shown, persisted) ==
    [s |-> s, next_enabled |-> next, check_enabled |-> check,
     question_shown |-> shown, persisted |-> persisted, answers |-> 0, correct |-> 0]

RECURSIVE main(_, _, _, _, _, _)

\* display_question and check_answer_button; a click on "Check answer"
\* registers the answer and runs main() again (st.experimental_rerun)
display_question(s, question, radio, click, next, persisted, recs, k, made) ==
    LET selected == radio
        shown == set_selected_choice(s, selected)
        disabled == CheckDisabled(shown, selected)
    IN  IF click = "check"
        THEN LET result == is_correct(question, selected)
                 after == register_answer(shown, selected, result, question,
                                          ChoiceById(question, selected))
             IN  {[r EXCEPT !.answers = 1, !.correct = IF result THEN 1 ELSE 0] :
                     r \in main(after, recs, k, "none", selected, made)}
        ELSE {Rendered(shown, next, ~disabled, TRUE, persisted)}

main(s, recs, k, click, radio, made) ==
    LET ready == init_game_state(s)
    IN  IF Len(recs) < k
        THEN {Rendered(ready, FALSE, FALSE, FALSE, FALSE)}
        ELSE LET question == ready.current_question
                 may == MayGenerate(ready)
                 generated ==
                     IF may /\ (click = "next" \/ question = NoQuestion)
                     THEN generate_new_question(ready, recs, k, made)
                     ELSE {[s |-> ready, question |-> question, persisted |-> FALSE]}
             IN  UNION {IF g.question = NoQuestion
                        THEN {Rendered(g.s, may, FALSE, FALSE, FALSE)}
                        ELSE display_question(g.s, g.question,
                                              IF g.persisted THEN NoChoice ELSE radio,
                                              click, may, g.persisted, recs, k, made) :
                           g \in generated}

(***************************************************************************)
(* The inputs of generate_question.                                        *)
(***************************************************************************)
QuizMakes == {<<"T">>, <<"T", " ", "C">>}
QuizModels == {<<"S">>, <<"C", " ", "S">>}
QuizYears == {2019, 2022}
QuizKeys ==
    (QuizMakes \X QuizModels \X {2020}) \cup ({<<"T">>} \X {<<"S">>} \X QuizYears)

\* record i of a list is the file with path "i": paths are unique per file
RecordLists ==
    UNION {{[i \in 1..n |-> CarRecord(IntToStr(i), ks[i][1], ks[i][2], ks[i][3])] :
               ks \in [1..n -> QuizKeys]} : n \in 0..MaxRecords}

(***************************************************************************)
(* The inputs of the Lexicon and of the parser.  "L R" stands for a        *)
(* two-word make such as Land Rover, "L" for a one-word make.               *)
(***************************************************************************)
CanonicalNames == {<<>>, <<"L">>, <<"L", " ", "R">>}
AliasLists == {<<>>, <<<<"l">>>>, <<<<"l", "-", "r">>>>}
MakeEntries == [canonical : CanonicalNames, aliases : AliasLists]

\* the mappings of at most MaxMakes entries; a dict has no key twice
Lexicons ==
    UNION {{m \in [1..n -> MakeEntries] :
               \A i, j \in 1..n : m[i].canonical = m[j].canonical => i = j} :
           n \in 0..MaxMakes}

LexiconTokens == {<<>>, <<"L">>, <<"r">>, <<"x">>, <<"L", " ", "R">>}
TokenLists == UNION {[1..n -> LexiconTokens] : n \in 0..MaxTokens}

ParserLexicons ==
    {<<>>,
     <<[canonical |-> <<"L", " ", "R">>, aliases |-> <<<<"l", "-", "r">>>>]>>,
     <<[canonical |-> <<"L", " ", "R">>, aliases |-> <<>>],
       [canonical |-> <<"L">>, aliases |-> <<<<"r">>>>]>>,
     <<[canonical |-> <<>>, aliases |-> <<<<"l">>>>]>>}

StemTokens ==
    {<<>>, <<"L">>, <<"r">>, <<"a", "-", "b">>,
     <<"1", "9", "4", "9">>, <<"2", "0", "3", "5">>, <<"2", "0", "3", "6">>}
StemTokenLists == UNION {[1..n -> StemTokens] : n \in 1..MaxStemTokens}
FileNames ==
    {StrJoin(ts, <<"_">>) \o <<".", "j", "p", "g">> : ts \in StemTokenLists}

(***************************************************************************)
(* The inputs of build_index and load_or_build_index: the entries that can  *)
(* lie below data_dir and the contents of the lexicon file.                 *)
(***************************************************************************)
Stem_L_r == <<"L", "_", "r">>
Year2035 == <<"_", "2", "0", "3", "5">>

File(parts) == [parts |-> parts, is_file |-> TRUE]
Directory(parts) == [parts |-> parts, is_file |-> FALSE]

\* L_r_2035.jpg, L_a-b_2035.PNG, L_r.jpeg (no year), L_r_2035.txt,
\* L/r_S_2035.jpg, L-r_S_2035.jpg, L_"\_2035.jpg, and a directory L_S_2035.png
FilePool ==
    {File(<<Stem_L_r \o Year2035 \o <<".", "j", "p", "g">>>>),
     File(<<<<"L", "_", "a", "-", "b">> \o Year2035 \o <<".", "P", "N", "G">>>>),
     File(<<Stem_L_r \o <<".", "j", "p", "e", "g">>>>),
     File(<<Stem_L_r \o Year2035 \o <<".", "t", "x", "t">>>>),
     File(<<<<"L">>, <<"r", "_", "S">> \o Year2035 \o <<".", "j", "p", "g">>>>),
     File(<<<<"L", "-", "r", "_", "S">> \o Year2035 \o <<".", "j", "p", "g">>>>),
     File(<<<<"L", "_", "\"", "\\">> \o Year2035 \o <<".", "j", "p", "g">>>>),
     Directory(<<<<"L", "_", "S">> \o Year2035 \o <<".", "p", "n", "g">>>>)}

\* the entries that come and go between load_or_build_index calls: the
\* supported files other than L_r_2035.jpg
SavedPool ==
    {e \in FilePool :
        /\ e.is_file
        /\ e.parts[1] # Stem_L_r \o Year2035 \o <<".", "j", "p", "g">>
        /\ e.parts[1] # Stem_L_r \o Year2035 \o <<".", "t", "x", "t">>}

\* no lexicon file, one without makes, one with two makes
LexiconFiles ==
    {Absent,
     [exists |-> TRUE, makes |-> <<>>],
     [exists |-> TRUE,
      makes |-> <<[canonical |-> <<"L", " ", "R">>, aliases |-> <<>>],
                  [canonical |-> <<"L">>, aliases |-> <<<<"r">>>>]>>]}

(***************************************************************************)
(* The inputs of the session: the catalogs the index can hold and the       *)
(* questions made from the last of them.                                    *)
(***************************************************************************)
RecordT_S == CarRecord(<<"1">>, <<"T">>, <<"S">>, 2020)

\* no record; two photos of one car; two cars
AppCatalogs ==
    {<<>>,
     <<RecordT_S, CarRecord(<<"2">>, <<"T">>, <<"S">>, 2020)>>,
     <<RecordT_S, CarRecord(<<"2">>, <<"T", " ", "C">>, <<"S">>, 2020)>>}

AppChoiceCounts == {1, 2}

SessionQuestions ==
    {o.question :
        o \in {r \in generate_question(
                        <<RecordT_S, CarRecord(<<"2">>, <<"T", " ", "C">>, <<"S">>, 2020)>>,
                        2) : r.status = "ok"}}

(***************************************************************************)
(* The specifications: one per component, the variables of the other       *)
(* components staying at their idle values.                                *)
(***************************************************************************)
QuizIdle ==
    /\ records = <<>> /\ num_choices = 0
    /\ outcome = [status |-> "none"] /\ rng_calls = 0

LexiconIdle ==
    /\ makes = <<>> /\ alias_lookup = <<>>
    /\ tokens = <<>> /\ resolved = [make |-> None, consumed |-> 0]

ParserIdle == path = <<>> /\ year_idx = NoIndex /\ parsed = NoRecord

IndexIdle ==
    /\ fs = {} /\ root_exists = FALSE
    /\ lexicon_file = Absent /\ index_file = Absent
    /\ index_result = [status |-> "none"] /\ last_built = NotBuilt /\ calls = 0

\* the session state before init_game_state, nothing rendered
SessionIdle ==
    /\ session_keys = {}
    /\ score = 0 /\ rounds_played = 0 /\ history = <<>>
    /\ current_question = NoQuestion /\ answered = FALSE
    /\ selected_choice_id = NoChoice
    /\ answer_calls = 0 /\ correct_calls = 0 /\ answers_given = 0
    /\ questions_made = 0
    /\ next_enabled = FALSE /\ check_enabled = FALSE /\ question_shown = FALSE

QuizInit ==
    /\ pc = "call"
    /\ records \in RecordLists
    /\ num_choices \in 0..MaxChoices
    /\ outcome = [status |-> "none"]
    /\ rng_calls = 0
    /\ LexiconIdle /\ ParserIdle /\ IndexIdle /\ SessionIdle

GenerateQuestion ==
    /\ pc = "call"
    /\ \E res \in generate_question(records, num_choices) :
          /\ outcome' = res
          /\ rng_calls' = rng_calls + res.rng
    /\ pc' = "done"
    /\ UNCHANGED <<records, num_choices, lexiconVars, parserVars, indexVars, sessionVars>>

\* _pick_distractor_keys called as at quiz.py:49-54, num_needed being
\* num_choices - 1, for any target group of the catalog and without the guard
\* of generate_question on the number of groups
PickDistractorKeys ==
    /\ pc = "call"
    /\ num_choices >= 1
    /\ LET catalog == _group_by_meta(records)
       IN  \E target_key \in Range(catalog.keys) :
             \E d \in _pick_distractor_keys(catalog, target_key, num_choices - 1) :
                /\ outcome' = [status |-> "picked", target_key |-> target_key,
                               keys |-> d.keys, filled |-> d.filled,
                               pool |-> d.pool, rng |-> d.rng]
                /\ rng_calls' = rng_calls + d.rng
    /\ pc' = "picked"
    /\ UNCHANGED <<records, num_choices, lexiconVars, parserVars, indexVars, sessionVars>>

QuizNext == GenerateQuestion \/ PickDistractorKeys

QuizSpec == QuizInit /\ [][QuizNext]_vars

\* the Lexicon has been constructed from makes; resolve_make is to be called
LexiconInit ==
    /\ pc = "call"
    /\ makes \in Lexicons
    /\ alias_lookup = Lexicon__post_init__(makes)
    /\ tokens \in TokenLists
    /\ resolved = [make |-> None, consumed |-> 0]
    /\ QuizIdle /\ ParserIdle /\ IndexIdle /\ SessionIdle

ResolveMake ==
    /\ pc = "call"
    /\ resolved' = resolve_make(alias_lookup, tokens)
    /\ pc' = "resolved"
    /\ UNCHANGED <<makes, alias_lookup, tokens, quizVars, parserVars, indexVars, sessionVars>>

LexiconNext == ResolveMake

LexiconSpec == LexiconInit /\ [][LexiconNext]_vars

\* a Lexicon and a file name; either function of the parser is to be called
ParserInit ==
    /\ pc = "call"
    /\ makes \in ParserLexicons
    /\ alias_lookup = Lexicon__post_init__(makes)
    /\ tokens = <<>> /\ resolved = [make |-> None, consumed |-> 0]
    /\ path \in FileNames
    /\ year_idx = NoIndex
    /\ parsed = NoRecord
    /\ QuizIdle /\ IndexIdle /\ SessionIdle

FindYearIndex ==
    /\ pc = "call"
    /\ year_idx' = find_year_index(StrSplit(PathStem(path), "_"))
    /\ pc' = "found"
    /\ UNCHANGED <<path, parsed, quizVars, lexiconVars, indexVars, sessionVars>>

ParseCarFilename ==
    /\ pc = "call"
    /\ parsed' = parse_car_filename(path, alias_lookup)
    /\ pc' = "parsed"
    /\ UNCHANGED <<path, year_idx, quizVars, lexiconVars, indexVars, sessionVars>>

ParserNext == FindYearIndex \/ ParseCarFilename

ParserSpec == ParserInit /\ [][ParserNext]_vars

\* st.session_state as the record the operators of state.py work on
Session ==
    [keys |-> session_keys, score |-> score, rounds_played |-> rounds_played,
     history |-> history, current_question |-> current_question,
     answered |-> answered, selected_choice_id |-> selected_choice_id]

\* st.session_state becomes s
SetSession(s) ==
    /\ session_keys' = s.keys
    /\ score' = s.score
    /\ rounds_played' = s.rounds_played
    /\ history' = s.history
    /\ current_question' = s.current_question
    /\ answered' = s.answered
    /\ selected_choice_id' = s.selected_choice_id

\* a new session: st.session_state holds none of the keys
SessionInit ==
    /\ pc = "start"
    /\ SessionIdle
    /\ QuizIdle /\ LexiconIdle /\ ParserIdle /\ IndexIdle

InitGameState ==
    /\ pc \in {"start", "ready"}
    /\ SetSession(init_game_state(Session))
    /\ pc' = "ready"
    /\ UNCHANGED <<answer_calls, correct_calls, answers_given, questions_made,
                   uiVars, quizVars, lexiconVars, parserVars, indexVars>>

PersistQuestion ==
    /\ pc = "ready"
    /\ \E question \in SessionQuestions :
          SetSession(persist_question(Session, question))
    /\ answers_given' = 0
    /\ UNCHANGED <<pc, answer_calls, correct_calls, questions_made,
                   uiVars, quizVars, lexiconVars, parserVars, indexVars>>

SetSelectedChoice ==
    /\ pc = "ready"
    /\ current_question # NoQuestion
    /\ \E choice_id \in RadioSelections(current_question) :
          SetSession(set_selected_choice(Session, choice_id))
    /\ UNCHANGED <<pc, answer_calls, correct_calls, answers_given, questions_made,
                   uiVars, quizVars, lexiconVars, parserVars, indexVars>>

\* register_answer for the current question, any of its choices and either
\* value of correct
RegisterAnswer ==
    /\ pc = "ready"
    /\ current_question # NoQuestion
    /\ answer_calls < MaxRounds
    /\ \E choice \in Range(current_question.choices), correct \in BOOLEAN :
          /\ SetSession(register_answer(Session, choice.id, correct,
                                        current_question, choice))
          /\ correct_calls' = IF correct THEN correct_calls + 1 ELSE correct_calls
    /\ answer_calls' = answer_calls + 1
    /\ answers_given' = answers_given + 1
    /\ UNCHANGED <<pc, questions_made, uiVars, quizVars, lexiconVars, parserVars,
                   indexVars>>

SessionNext == InitGameState \/ PersistQuestion \/ SetSelectedChoice \/ RegisterAnswer

SessionSpec == SessionInit /\ [][SessionNext]_vars

\* the page is opened in a new session; load_or_build_index returns records
AppInit ==
    /\ pc = "start"
    /\ records \in AppCatalogs
    /\ num_choices \in AppChoiceCounts
    /\ outcome = [status |-> "none"] /\ rng_calls = 0
    /\ SessionIdle
    /\ LexiconIdle /\ ParserIdle /\ IndexIdle

\* the session state and the buttons are as the run r of main() left them
RunLeaves(r) ==
    /\ SetSession(r.s)
    /\ next_enabled' = r.next_enabled
    /\ check_enabled' = r.check_enabled
    /\ question_shown' = r.question_shown
    /\ questions_made' = IF r.persisted THEN questions_made + 1 ELSE questions_made
    /\ answers_given' = IF r.persisted THEN 0 ELSE answers_given + r.answers
    /\ answer_calls' = answer_calls + r.answers
    /\ correct_calls' = correct_calls + r.correct
    /\ pc' = "rendered"

\* the value of the question's radio at the start of a run: what was selected
\* in the last run; a radio that the last run did not render may be reset
RadioValues ==
    IF question_shown THEN {selected_choice_id} ELSE {selected_choice_id, NoChoice}

\* the first run of main()
OpenPage ==
    /\ pc = "start"
    /\ \E r \in main(Session, records, num_choices, "none", NoChoice, questions_made) :
          RunLeaves(r)
    /\ UNCHANGED <<records, num_choices, outcome, rng_calls, lexiconVars,
                   parserVars, indexVars>>

\* a click on "Next car", which the last run rendered enabled
ClickNextCar ==
    /\ pc = "rendered"
    /\ next_enabled
    /\ \E radio \in RadioValues :
          \E r \in main(Session, records, num_choices, "next", radio, questions_made) :
             RunLeaves(r)
    /\ UNCHANGED <<records, num_choices, outcome, rng_calls, lexiconVars,
                   parserVars, indexVars>>

\* an option of the radio is selected
SelectOption ==
    /\ pc = "rendered"
    /\ question_shown
    /\ \E radio \in RadioSelections(current_question) :
          \E r \in main(Session, records, num_choices, "none", radio, questions_made) :
             RunLeaves(r)
    /\ UNCHANGED <<records, num_choices, outcome, rng_calls, lexiconVars,
                   parserVars, indexVars>>

\* a click on "Check answer", which the last run rendered enabled
ClickCheckAnswer ==
    /\ pc = "rendered"
    /\ check_enabled
    /\ rounds_played < MaxRounds
    /\ \E r \in main(Session, records, num_choices, "check", selected_choice_id,
                      questions_made) :
          RunLeaves(r)
    /\ UNCHANGED <<records, num_choices, outcome, rng_calls, lexiconVars,
                   parserVars, indexVars>>

\* a click on "Rebuild index": the next run builds the index again, which
\* may hold other records
ClickRebuildIndex ==
    /\ pc = "rendered"
    /\ records' \in AppCatalogs
    /\ \E radio \in RadioValues :
          \E r \in main(Session, records', num_choices, "none", radio, questions_made) :
             RunLeaves(r)
    /\ UNCHANGED <<num_choices, outcome, rng_calls, lexiconVars, parserVars,
                   indexVars>>

AppNext ==
    \/ OpenPage \/ ClickNextCar \/ SelectOption \/ ClickCheckAnswer
    \/ ClickRebuildIndex

AppSpec == AppInit /\ [][AppNext]_vars

\* a data directory (or none) before build_index is called
BuildInit ==
    /\ pc = "call"
    /\ root_exists \in BOOLEAN
    /\ fs \in SUBSET FilePool
    /\ ~root_exists => fs = {}
    /\ lexicon_file = Absent /\ index_file = Absent
    /\ index_result = [status |-> "none"]
    /\ last_built = NotBuilt
    /\ calls = 0
    /\ QuizIdle /\ LexiconIdle /\ ParserIdle /\ SessionIdle

\* build_index(data_dir, lexicon) for a Lexicon made of any of the mappings
BuildIndex ==
    /\ pc = "call"
    /\ \E mapping \in ParserLexicons :
          /\ makes' = mapping
          /\ alias_lookup' = Lexicon__post_init__(mapping)
          /\ index_result' = build_index(fs, root_exists, alias_lookup')
    /\ pc' = "built"
    /\ UNCHANGED <<fs, root_exists, lexicon_file, index_file, last_built, calls,
                   tokens, resolved, quizVars, parserVars, sessionVars>>

BuildNext == BuildIndex

BuildSpec == BuildInit /\ [][BuildNext]_vars

\* a data directory (or none), a lexicon file (or none) and no saved index
IndexInit ==
    /\ pc = "call"
    /\ root_exists \in BOOLEAN
    /\ fs \in SUBSET SavedPool
    /\ ~root_exists => fs = {}
    /\ lexicon_file \in LexiconFiles
    /\ index_file = Absent
    /\ index_result = [status |-> "none"]
    /\ last_built = NotBuilt
    /\ calls = 0
    /\ QuizIdle /\ LexiconIdle /\ ParserIdle /\ SessionIdle

\* load_or_build_index(data_dir, index_path, lexicon_path, force_rebuild)
LoadOrBuildIndex ==
    /\ pc \in {"call", "loaded", "changed"}
    /\ calls < MaxCalls
    /\ \E force_rebuild \in BOOLEAN :
          LET call == load_or_build_index(fs, root_exists, lexicon_file,
                                          index_file, force_rebuild)
          IN  /\ index_result' =
                    IF call.status = "ok"
                    THEN [status |-> "ok", source |-> call.source,
                          force_rebuild |-> force_rebuild,
                          records |-> call.records]
                    ELSE [status |-> call.status, source |-> call.source,
                          force_rebuild |-> force_rebuild]
              /\ lexicon_file' = call.lexicon_file
              /\ index_file' = call.index_file
              /\ makes' = call.makes
              /\ alias_lookup' = Lexicon__post_init__(call.makes)
              /\ last_built' =
                    IF call.status = "ok" /\ call.source = "build"
                    THEN [built |-> TRUE, records |-> call.records]
                    ELSE last_built
    /\ calls' = calls + 1
    /\ pc' = "loaded"
    /\ UNCHANGED <<fs, root_exists, tokens, resolved, quizVars, parserVars,
                   sessionVars>>

\* between two calls a file or directory is added below data_dir or removed
ChangeFiles ==
    /\ pc = "loaded"
    /\ calls < MaxCalls
    /\ root_exists
    /\ \E e \in SavedPool : fs' = IF e \in fs THEN fs \ {e} ELSE fs \cup {e}
    /\ pc' = "changed"
    /\ UNCHANGED <<root_exists, lexicon_file, index_file, index_result, last_built,
                   calls, quizVars, lexiconVars, parserVars, sessionVars>>

IndexNext == LoadOrBuildIndex \/ ChangeFiles

IndexSpec == IndexInit /\ [][IndexNext]_vars

(***************************************************************************)
(* Properties of generate_question.                                        *)
(***************************************************************************)
\* the distinct (make, model, year) groups of the input records
GroupsOf(recs) == {KeyOf(recs[i]) : i \in 1..Len(recs)}

Returned == pc = "done" /\ outcome.status = "ok"

ChoiceIndices == 1..Len(outcome.question.choices)

\* the choices of the returned question other than the correct one
DistractorChoices ==
    {c \in Range(outcome.question.choices) :
        ~is_correct(outcome.question, c.id)}

\* C1: with num_choices = k >= 2 and at least k distinct groups, every
\* outcome of the random source is a question with exactly k choices, of
\* which exactly one has id equal to correct_choice_id.
C1_ExactlyKChoicesOneCorrect ==
    (pc = "done" /\ num_choices >= 2
        /\ Cardinality(GroupsOf(records)) >= num_choices)
    => /\ outcome.status = "ok"
       /\ Len(outcome.question.choices) = num_choices
       /\ Cardinality({i \in ChoiceIndices :
              is_correct(outcome.question, outcome.question.choices[i].id)}) = 1

\* a question with 3 choices made from more records than groups, where the
\* target's make alone could not fill the quota
C1_Witness ==
    /\ Returned /\ num_choices = 3
    /\ Len(outcome.question.choices) = 3
    /\ Len(records) > Cardinality(GroupsOf(records))
    /\ \E c \in DistractorChoices : c.record.make # outcome.question.image_record.make

\* C2: in every returned question no two choices share a label.
C2_LabelsPairwiseDistinct ==
    Returned =>
        \A i, j \in ChoiceIndices :
            i # j => outcome.question.choices[i].label # outcome.question.choices[j].label

\* C3: with num_choices >= 2 and fewer distinct groups than num_choices the
\* call fails with InsufficientCatalog and returns no question, however many
\* records there are.
C3_InsufficientCatalog ==
    (pc = "done" /\ num_choices >= 2
        /\ Cardinality(GroupsOf(records)) < num_choices)
    => /\ outcome.status = "InsufficientCatalog"
       /\ "question" \notin DOMAIN outcome

\* the failure with at least num_choices records in fewer groups
C3_Witness ==
    /\ pc = "done" /\ outcome.status = "InsufficientCatalog"
    /\ Len(records) >= num_choices
    /\ Cardinality(GroupsOf(records)) = num_choices - 1

\* C4: with num_choices < 2 the call fails with InvalidChoiceCount for every
\* record list, before the random source or the catalog is consulted.
C4_InvalidChoiceCount ==
    (pc = "done" /\ num_choices < 2)
    => /\ outcome.status = "InvalidChoiceCount"
       /\ "question" \notin DOMAIN outcome
       /\ rng_calls = 0
       /\ ~outcome.grouped

\* the failure on a record list large enough for a one-choice question
C4_Witness ==
    /\ pc = "done" /\ outcome.status = "InvalidChoiceCount"
    /\ num_choices = 1
    /\ Cardinality(GroupsOf(records)) >= 2

\* the groups of the target's make other than the target's group
SameMakeOthers(recs, target) ==
    {key \in GroupsOf(recs) : key[1] = target.make /\ key # KeyOf(target)}

\* C5: when the target's make has at least k-1 other groups, every
\* distractor of the returned question has the target's make.
C5_SameMakeDistractorsFirst ==
    (Returned
        /\ Cardinality(SameMakeOthers(records, outcome.question.image_record))
               >= num_choices - 1)
    => \A c \in DistractorChoices : c.record.make = outcome.question.image_record.make

\* two same-make distractors returned although another make was on offer
C5_Witness ==
    /\ Returned /\ num_choices = 3
    /\ Cardinality(SameMakeOthers(records, outcome.question.image_record)) >= 2
    /\ \E key \in GroupsOf(records) : key[1] # outcome.question.image_record.make
    /\ Cardinality(DistractorChoices) = 2

\* the groups the distractors of the returned question stand for
DistractorKeys == {KeyOf(c.record) : c \in DistractorChoices}

\* the groups of another make than the target's
OtherMakeGroups(recs, target) == {key \in GroupsOf(recs) : key[1] # target.make}

YearDistance(key, target) == Abs(key[3] - target.year)

\* C15: when the target's make has fewer than k-1 other groups, no
\* different-make group left unselected is strictly closer in year to the
\* target than a different-make group that was selected.
C15_ClosestYearsFirst ==
    (Returned
        /\ Cardinality(SameMakeOthers(records, outcome.question.image_record))
               < num_choices - 1)
    => LET target == outcome.question.image_record
           offered == OtherMakeGroups(records, target)
       IN  \A sel \in DistractorKeys \cap offered :
             \A left \in offered \ DistractorKeys :
                YearDistance(left, target) >= YearDistance(sel, target)

\* a different-make group was selected and a farther one was left out
C15_Witness ==
    /\ Returned
    /\ Cardinality(SameMakeOthers(records, outcome.question.image_record))
           < num_choices - 1
    /\ LET target == outcome.question.image_record
           offered == OtherMakeGroups(records, target)
       IN  \E sel \in DistractorKeys \cap offered :
             \E left \in offered \ DistractorKeys :
                YearDistance(left, target) > YearDistance(sel, target)

Picked == pc = "picked"

\* the groups of the make of target_key other than target_key
SameMakeOtherKeys(recs, target_key) ==
    {key \in GroupsOf(recs) : key[1] = target_key[1] /\ key # target_key}

\* C16: with at least num_needed + 1 groups, _pick_distractor_keys returns
\* exactly num_needed keys, pairwise distinct, all groups of the catalog and
\* none the target key; and when the target's make has fewer than num_needed
\* other groups, each of them is returned.
C16_ExactlyNeededDistinctKeys ==
    Picked =>
        LET num_needed == num_choices - 1
            keys == outcome.keys
        IN  /\ Cardinality(GroupsOf(records)) >= num_needed + 1
                => /\ Len(keys) = num_needed
                   /\ \A i, j \in 1..Len(keys) : keys[i] = keys[j] => i = j
                   /\ Range(keys) \subseteq GroupsOf(records)
                   /\ outcome.target_key \notin Range(keys)
            /\ Cardinality(SameMakeOtherKeys(records, outcome.target_key)) < num_needed
                => SameMakeOtherKeys(records, outcome.target_key) \subseteq Range(keys)

\* two keys returned, one of the target's make and one of another make
C16_Witness ==
    /\ Picked /\ num_choices = 3 /\ Len(outcome.keys) = 2
    /\ Cardinality(SameMakeOtherKeys(records, outcome.target_key)) = 1
    /\ \E i \in 1..2 : outcome.keys[i][1] # outcome.target_key[1]

\* the first record, in input order, of the group of record
FirstOfGroup(recs, record) ==
    recs[CHOOSE i \in 1..Len(recs) :
            /\ KeyOf(recs[i]) = KeyOf(record)
            /\ \A j \in 1..(i - 1) : KeyOf(recs[j]) # KeyOf(record)]

\* C17: image_record is one of the input records, the correct choice carries
\* it, every choice's label is "Make Model Year" of the record it carries,
\* and a distractor carries the first record, in input order, of its group.
C17_ChoicesCarryTheirRecords ==
    Returned =>
        LET question == outcome.question
        IN  /\ InSeq(question.image_record, records)
            /\ \A c \in Range(question.choices) :
                  /\ is_correct(question, c.id) => c.record = question.image_record
                  /\ c.label = c.record.make \o <<" ">> \o c.record.model
                                   \o <<" ">> \o IntToStr(c.record.year)
            /\ \A c \in DistractorChoices : c.record = FirstOfGroup(records, c.record)

\* the displayed record is not the first of its group, and a distractor's
\* group has more than one record
C17_Witness ==
    /\ Returned
    /\ outcome.question.image_record
           # FirstOfGroup(records, outcome.question.image_record)
    /\ \E c \in DistractorChoices :
          Cardinality({i \in 1..Len(records) : KeyOf(records[i]) = KeyOf(c.record)}) >= 2

\* C18: if the first two loops leave the quota unmet, the fallback pool is
\* empty; with at least num_choices groups the first two loops fill the quota,
\* and generate_question never makes the fallback shuffle.
C18_FallbackNeverContributes ==
    /\ Picked =>
          /\ outcome.filled < num_choices - 1 => outcome.pool = <<>>
          /\ Cardinality(GroupsOf(records)) >= num_choices
                => outcome.filled >= num_choices - 1
    /\ Returned => outcome.rng = 5

\* the quota is left unmet by the first two loops
C18_Witness ==
    /\ Picked /\ outcome.filled < num_choices - 1
    /\ outcome.filled >= 1

(***************************************************************************)
(* Properties of Lexicon.resolve_make.                                     *)
(***************************************************************************)
\* the normalized join of the first size tokens
WindowKey(size) == normalize_name(StrJoin(SubSeq(tokens, 1, size), <<" ">>))

WindowSizes == {size \in 1..MaxWindow : size <= Len(tokens)}

\* the window sizes whose key is in the alias table
KeyWindows == {size \in WindowSizes : WindowKey(size) \in DOMAIN alias_lookup}

\* the window sizes whose key is in the alias table with a non-empty canonical
NamedWindows == {size \in KeyWindows : alias_lookup[WindowKey(size)] # <<>>}

Largest(S) == CHOOSE n \in S : \A m \in S : m <= n

LongestOf(windows) ==
    IF windows = {} THEN resolved = [make |-> None, consumed |-> 0]
    ELSE resolved = [make |-> alias_lookup[WindowKey(Largest(windows))],
                     consumed |-> Largest(windows)]

\* C6: resolve_make returns the canonical of the largest window whose
\* normalized join is a key of the alias table, and (none, 0) exactly when
\* there is no such window.
C6_LongestKeyWindow == pc = "resolved" => LongestOf(KeyWindows)

\* what resolve_make does compute: the longest window among the keys that
\* carry a non-empty canonical name
LongestNamedWindow == pc = "resolved" => LongestOf(NamedWindows)

\* C7: every canonical name is its own alias and resolves directly:
\* resolve_make([c]) returns (c, 1) for each canonical name c of the mapping.
C7_CanonicalResolvesToItself ==
    \A i \in 1..Len(makes) :
        /\ normalize_name(makes[i].canonical) \in DOMAIN alias_lookup
        /\ (pc = "resolved" /\ tokens = <<makes[i].canonical>>)
               => resolved = [make |-> makes[i].canonical, consumed |-> 1]

(***************************************************************************)
(* Properties of find_year_index and parse_car_filename.                   *)
(***************************************************************************)
\* the tokens of the file name's stem
PathTokens == StrSplit(PathStem(path), "_")

\* the positions (from 1) of the 19xx/20xx tokens with a value in range
ValidYearPositions ==
    {i \in 1..Len(PathTokens) :
        /\ YEAR_PATTERN(PathTokens[i])
        /\ StrToInt(PathTokens[i]) \in MinYear..MaxYear}

Smallest(S) == CHOOSE n \in S : \A m \in S : n <= m

ParsedRecord == pc = "parsed" /\ parsed # NoRecord

\* make and model split the tokens before position y after `consumed` tokens
SplitsAt(y, consumed) ==
    LET pre == SubSeq(PathTokens, 1, y - 1)
        key == normalize_name(StrJoin(SubSeq(pre, 1, consumed), <<" ">>))
    IN  /\ parsed.model = humanize_tokens(SubSeq(pre, consumed + 1, Len(pre)))
        /\ \/ key \in DOMAIN alias_lookup /\ parsed.make = alias_lookup[key]
           \/ consumed = 1 /\ parsed.make = humanize_token(pre[1])

\* C8: a returned record has the value of the leftmost valid year token as
\* year; its make comes from the first consumed >= 1 pre-year tokens and its
\* model is the humanization of exactly the remaining pre-year tokens; the
\* tokens from the year token on influence neither make nor model.
C8_MakeModelPartitionPreYear ==
    ParsedRecord =>
        /\ ValidYearPositions # {}
        /\ LET y == Smallest(ValidYearPositions)
               cut == parse_car_filename(
                          StrJoin(SubSeq(PathTokens, 1, y), <<"_">>)
                              \o <<".", "j", "p", "g">>, alias_lookup)
           IN  /\ parsed.year = StrToInt(PathTokens[y])
               /\ \E consumed \in 1..(y - 2) : SplitsAt(y, consumed)
               /\ cut # NoRecord
               /\ cut.make = parsed.make /\ cut.model = parsed.model

\* a record from a stem with a make, one model token, the year and a
\* trailing token
C8_Witness ==
    /\ ParsedRecord
    /\ ValidYearPositions # {}
    /\ Smallest(ValidYearPositions) = 3
    /\ Len(PathTokens) = 4
    /\ parsed.model # <<>>

\* C9: every returned record has a non-empty make, a non-empty model and a
\* year in [1950, 2035].
C9_RecordFieldsNonEmpty ==
    ParsedRecord =>
        /\ parsed.make # <<>>
        /\ parsed.model # <<>>
        /\ parsed.year \in MinYear..MaxYear

\* C10 as claimed: find_year_index never returns the index of a token whose
\* value lies outside [1950, 2035], and never returns index 0.
C10_RejectsOutOfRangeAndIndexZero ==
    pc = "found" =>
        /\ year_idx # NoIndex => StrToInt(PathTokens[year_idx + 1]) \in MinYear..MaxYear
        /\ year_idx # 0

\* C10 as amended: find_year_index never returns the index of a token whose
\* value lies outside [1950, 2035]; it returns index 0 when the first token
\* is a valid year token, and it is parse_car_filename that rejects that
\* case by returning none.
C10_RejectsOutOfRangeOnly ==
    /\ (pc = "found" /\ year_idx # NoIndex)
          => /\ YEAR_PATTERN(PathTokens[year_idx + 1])
             /\ StrToInt(PathTokens[year_idx + 1]) \in MinYear..MaxYear
    /\ (pc = "found" /\ 1 \in ValidYearPositions) => year_idx = 0
    /\ (pc = "parsed" /\ 1 \in ValidYearPositions) => parsed = NoRecord

\* index 0 returned for a stem that also has an out-of-range year token
C10_Witness ==
    /\ pc = "found" /\ year_idx = 0
    /\ \E i \in 1..Len(PathTokens) :
          YEAR_PATTERN(PathTokens[i]) /\ i \notin ValidYearPositions

\* the tokens before the leftmost valid year token (none when there is no
\* such token or it comes first)
PreYearTokens ==
    IF ValidYearPositions = {} THEN <<>>
    ELSE SubSeq(PathTokens, 1, Smallest(ValidYearPositions) - 1)

PreYearKey(size) == normalize_name(StrJoin(SubSeq(PreYearTokens, 1, size), <<" ">>))

\* the window sizes on the pre-year tokens that the lexicon resolves
ResolvedWindows ==
    {size \in 1..MaxWindow :
        /\ size <= Len(PreYearTokens)
        /\ PreYearKey(size) \in DOMAIN alias_lookup
        /\ alias_lookup[PreYearKey(size)] # <<>>}

\* the number of pre-year tokens the make takes
MakeTokenCount == IF ResolvedWindows = {} THEN 1 ELSE Largest(ResolvedWindows)

\* C11: parse_car_filename returns none exactly when no token is a valid
\* year token, or the leftmost valid year token is the first token, or the
\* make takes all the pre-year tokens; otherwise it returns a record.
C11_NoneExactlyWhen ==
    pc = "parsed" =>
        (parsed = NoRecord <=>
            \/ ValidYearPositions = {}
            \/ Smallest(ValidYearPositions) = 1
            \/ MakeTokenCount >= Len(PreYearTokens))

\* none for a stem whose first token is a valid year token although a later
\* valid year token has tokens before it
C11_Witness ==
    /\ pc = "parsed" /\ parsed = NoRecord
    /\ 1 \in ValidYearPositions
    /\ \E y \in ValidYearPositions : y >= 4

\* the canonical names of the mapping
Canonicals == {makes[i].canonical : i \in 1..Len(makes)}

\* C12: when the lexicon resolves a make on the pre-year tokens, the record's
\* make is the canonical name and the model is made of the tokens after the
\* matched window; when it resolves nothing, the make is the humanized first
\* pre-year token and the model is made of the tokens after it.
C12_MakeDerivation ==
    ParsedRecord =>
        LET rest == SubSeq(PreYearTokens, MakeTokenCount + 1, Len(PreYearTokens))
        IN  /\ parsed.model = humanize_tokens(rest)
            /\ IF ResolvedWindows # {}
               THEN /\ parsed.make = alias_lookup[PreYearKey(MakeTokenCount)]
                    /\ parsed.make \in Canonicals
               ELSE parsed.make = humanize_token(PreYearTokens[1])

\* a make resolved through an alias whose text differs from the canonical name
C12_Witness ==
    /\ ParsedRecord
    /\ ResolvedWindows # {}
    /\ parsed.make # humanize_tokens(SubSeq(PreYearTokens, 1, MakeTokenCount))
    /\ normalize_name(parsed.make) # PreYearKey(MakeTokenCount)

(***************************************************************************)
(* Properties of build_index and load_or_build_index.                      *)
(***************************************************************************)
Built == pc = "built" /\ index_result.status = "ok"

RelPath(e) == StrJoin(e.parts, <<"/">>)

\* the name ends in one of the extensions, whatever the case of its letters
HasImageExtension(name) ==
    \E ext \in supported_exts :
        /\ Len(name) > Len(ext)
        /\ StrLower(SubSeq(name, Len(name) - Len(ext) + 1, Len(name))) = ext

\* the files with a supported extension whose name parses
IndexedFiles ==
    {e \in fs : /\ e.is_file
                /\ HasImageExtension(e.parts[Len(e.parts)])
                /\ parse_car_filename(RelPath(e), alias_lookup) # NoRecord}

\* the returned list holds one record per indexed file and nothing else
OneRecordPerIndexedFile ==
    LET recs == index_result.records
    IN  /\ \A e \in IndexedFiles :
              \E i \in 1..Len(recs) :
                 /\ recs[i] = parse_car_filename(RelPath(e), alias_lookup)
                 /\ \A j \in 1..Len(recs) : recs[j].path = RelPath(e) => j = i
        /\ \A i \in 1..Len(recs) : \E e \in IndexedFiles : recs[i].path = RelPath(e)

\* C13 as stated: build_index over an existing root returns one record per
\* file with a supported extension whose stem parses, ordered as the full
\* paths are ordered as strings.
C13_RecordsInFullPathStringOrder ==
    Built =>
        /\ OneRecordPerIndexedFile
        /\ \A i, j \in 1..Len(index_result.records) :
              i < j => StrLess(index_result.records[i].path,
                               index_result.records[j].path)

\* C13, amended: build_index over an existing root returns one record per
\* file with a supported extension whose stem parses, ordered as the paths
\* are ordered component by component; files that fail to parse are skipped.
C13_RecordsInPathOrder ==
    Built =>
        /\ OneRecordPerIndexedFile
        /\ \A i, j \in 1..Len(index_result.records) :
              i < j => PartsLess(StrSplit(index_result.records[i].path, "/"),
                                 StrSplit(index_result.records[j].path, "/"))

\* a supported file that fails to parse lies between two indexed files
C13_Witness ==
    /\ Built
    /\ \E e \in fs \ IndexedFiles :
          /\ e.is_file /\ HasImageExtension(e.parts[Len(e.parts)])
          /\ \E i, j \in 1..Len(index_result.records) :
                /\ PartsLess(StrSplit(index_result.records[i].path, "/"), e.parts)
                /\ PartsLess(e.parts, StrSplit(index_result.records[j].path, "/"))

\* C14: when a catalog has been built and saved, a following call of
\* load_or_build_index with force_rebuild = false returns the records the
\* build returned, in the same order and with the same field values.
C14_SavedIndexRoundTrip ==
    [][(/\ calls' = calls + 1
        /\ last_built.built
        /\ ~index_result'.force_rebuild)
       => /\ index_result'.status = "ok"
          /\ index_result'.records = last_built.records]_vars

\* records read back from the index, one of them with a quote and a backslash
\* in its path, after the files below data_dir have changed
C14_Witness ==
    /\ pc = "loaded" /\ index_result.status = "ok"
    /\ index_result.source = "index"
    /\ Len(index_result.records) >= 2
    /\ \E i \in 1..Len(index_result.records) :
          InSeq("\"", index_result.records[i].path)
    /\ build_index(fs, root_exists, alias_lookup).records # index_result.records

(***************************************************************************)
(* Properties of the session state and of the game loop.                   *)
(***************************************************************************)
\* C19: rounds_played is the number of register_answer calls and score the
\* number of them made with correct = true, so 0 <= score <= rounds_played;
\* persist_question and init_game_state leave score, rounds_played and
\* history as they are.
C19_ScoreBookkeeping ==
    /\ [](session_keys # {} =>
             /\ rounds_played = answer_calls
             /\ score = correct_calls
             /\ 0 <= score /\ score <= rounds_played)
    /\ [][answer_calls' = answer_calls
             => UNCHANGED <<score, rounds_played, history>>]_vars

\* a question persisted after a right and a wrong answer
C19_Witness ==
    /\ pc = "ready"
    /\ answer_calls = 2 /\ correct_calls = 1
    /\ answers_given = 0
    /\ current_question # NoQuestion /\ ~answered

\* C20: at most one answer is registered per persisted question; while the
\* current question is answered "Check answer" is disabled; and the current
\* question is replaced only when there was none or it was answered.
C20_OneAnswerPerQuestion ==
    /\ [](answers_given <= 1 /\ (answered => ~check_enabled))
    /\ [][current_question' # current_question
             => (current_question = NoQuestion \/ answered)]_vars

\* the second question of the session has been answered
C20_Witness ==
    /\ pc = "rendered"
    /\ rounds_played = 2 /\ questions_made = 2
    /\ answered /\ answers_given = 1 /\ next_enabled

====
